---------------------------- MODULE Spec2Model ----------------------------
(***************************************************************************)
(* Model of the resume tailoring pipeline (selvadevan/ai-resume-tailor).   *)
(*                                                                         *)
(*  - SpecStage: one call of a remote stage (extract_with_groq,            *)
(*    parse_job_description, tailor_resume): the HTTP outcome and the      *)
(*    reply text are inputs, the JSON extractor of the stage and json.loads     *)
(*    are computed character by character.                                 *)
(*  - Spec: one execution of ResumeCustomizationSystem.run, with the       *)
(*    document conversion and the length test of process_resume and the    *)
(*    schema mapping of process_cv computed on the extracted object.       *)
(*  - SpecBatch: one call of BatchProcessor.process_batch, then            *)
(*    save_report; SpecBatchFair adds the progress of the loop.            *)
(*  - SpecCli: one execution of main() of main.py, up to the exit code.    *)
(*  - SpecPdf: one call of generate_pdf, with the directories, the files   *)
(*    and the pandoc executable as inputs.                                 *)
(*  - SpecClean: one call of clean_pdf_text, its substitutions computed    *)
(*    character by character.                                              *)
(*                                                                         *)
(* Text is a sequence of one-character strings; positions are 0-based, as  *)
(* in Python, so that the offsets of the source (+7, +3, +1) are literal.  *)
(***************************************************************************)
EXTENDS Integers, Sequences, FiniteSets, TLC

VARIABLES
    stPc,       \* SpecStage: "idle" before the stage call, "returned" after it
    stStage,    \* the stage that was called
    stKey,      \* self.api_key of the stage object
    stArgOk,    \* the text argument of the stage is not blank
    stHttp,     \* what requests.post did (NoRequest when it was not called)
    content,    \* the local variable content: the text of the reply
    json_text,  \* the local variable json_text / json_data: the candidate
    envelope,   \* the dict the stage returned
    requests,   \* the number of requests.post calls of the stage call
    runPc,      \* Spec: the position of run()
    cv_file,    \* run() argument
    job_file,   \* run() argument
    output_name,    \* run() argument (NoneValue when not given)
    format_type,    \* run() argument
    calls,      \* the stage methods run() has invoked, in order
    reports,    \* what each invoked stage reported: success, failure or raised
    doc_result, \* process_resume: the dict extract_from_file returned
    remote,     \* the remote stage methods invoked during run(), in order
    cv_data,    \* the local variable cv_data of process_cv (the extracted object)
    cv_result,  \* run() locals
    job_result,
    tailored_result,
    result,     \* the dict run() returned
    bPc,        \* SpecBatch: the position of process_batch
    cvs_dir,    \* the files of the directory cvs_dir
    jobs_dir,   \* the files of the directory jobs_dir
    cv_files,   \* process_batch locals: the lists find_files returned
    job_files,
    loop_i,     \* the loop indices i and j of process_batch
    loop_j,
    successful, \* process_batch locals: the two counters
    failed,
    results,    \* self.results
    results_before, \* self.results when process_batch was entered
    invoked,    \* the (cv_file, job_file) pairs run() was invoked with, in order
    exists_log, \* for each invocation, whether the two files existed then
    batch_result,   \* the dict process_batch returned
    report,     \* the three totals save_report wrote
    cliPc,      \* SpecCli: the position of main()
    cli_args,   \* args, as argparse returned them
    env_key,    \* os.environ.get("GROQ_API_KEY")
    api_key,    \* the local variable api_key of main()
    exit_code,  \* the exit code of the process (NoneValue while it runs)
    pdfPc,      \* SpecPdf: the position of generate_pdf
    pdf_in,     \* resume_data well formed, temp directory writable, pandoc
    output_path, \* the argument output_path, as a sequence of pieces
    temp_md,    \* the local temp_md
    dirs,       \* the directories that exist
    disk_files,      \* the files that exist
    pandoc_result, \* what subprocess.run returned
    pdf_result, \* what generate_pdf returned
    cleanPc,    \* SpecClean: the position of clean_pdf_text
    raw_text,   \* the argument text, a sequence of characters
    cleaned     \* what clean_pdf_text returned

stageVars ==
    <<stPc, stStage, stKey, stArgOk, stHttp, content, json_text, envelope, requests>>

runVars ==
    <<runPc, cv_file, job_file, output_name, format_type, calls, reports,
      doc_result, remote, cv_data, cv_result, job_result, tailored_result, result>>

batchVars ==
    <<bPc, cvs_dir, jobs_dir, cv_files, job_files, loop_i, loop_j, successful,
      failed, results, results_before, invoked, exists_log, batch_result, report>>

cliVars == <<cliPc, cli_args, env_key, api_key, exit_code>>

pdfVars == <<pdfPc, pdf_in, output_path, temp_md, dirs, disk_files, pandoc_result,
             pdf_result>>

cleanVars == <<cleanPc, raw_text, cleaned>>

toolVars == <<cliVars, pdfVars, cleanVars>>

vars == <<stageVars, runVars, batchVars, toolVars>>

(***************************************************************************)
(* Bounds                                                                  *)
(***************************************************************************)
\* A reply text is a concatenation of at most MaxPieces pieces.
MaxPieces == 5
\* An extracted resume holds at most MaxExp work_experience entries.
MaxExp == 2
\* The directory cvs_dir holds at most MaxCvs resume files.
MaxCvs == 2

\* A text given to clean_pdf_text is made of at most MaxCleanPieces pieces.
MaxCleanPieces == 3

(***************************************************************************)
(* Python string primitives                                                *)
(***************************************************************************)
\* The backquote character (a TLA+ string cannot hold one).
BackTick == "^"

FenceJson == <<BackTick, BackTick, BackTick, "j", "s", "o", "n">>
Fence == <<BackTick, BackTick, BackTick>>
OpenBrace == <<"{">>
CloseBrace == <<"}">>

\* str.isspace for one character
IsSpace(c) == c \in {" ", "\n", "\t", "\r"}

\* s[a:b] for 0 <= a
Slice(s, a, b) == SubSeq(s, a + 1, b)

\* s[i:i+len(sub)] == sub
IsAt(s, sub, i) ==
    /\ i >= 0
    /\ i + Len(sub) <= Len(s)
    /\ \A k \in 1..Len(sub) : s[i + k] = sub[k]

\* s.find(sub, start): the lowest index >= start where sub occurs, or -1
Find(s, sub, start) ==
    LET hits == {i \in start..(Len(s) - Len(sub)) : IsAt(s, sub, i)}
    IN IF hits = {} THEN -1 ELSE CHOOSE i \in hits : \A j \in hits : i <= j

\* s.rfind(sub): the highest index where sub occurs, or -1
RFind(s, sub) ==
    LET hits == {i \in 0..(Len(s) - Len(sub)) : IsAt(s, sub, i)}
    IN IF hits = {} THEN -1 ELSE CHOOSE i \in hits : \A j \in hits : i >= j

\* sub in s
Contains(s, sub) == Find(s, sub, 0) # -1

\* s.strip()
Strip(s) ==
    LET keep == {i \in 1..Len(s) : ~IsSpace(s[i])}
    IN IF keep = {} THEN <<>>
       ELSE SubSeq(s, CHOOSE i \in keep : \A j \in keep : i <= j,
                      CHOOSE i \in keep : \A j \in keep : i >= j)

\* s.startswith(c), s.endswith(c) for a one-character c
StartsWith(s, c) == Len(s) > 0 /\ s[1] = c
EndsWith(s, c) == Len(s) > 0 /\ s[Len(s)] = c

(***************************************************************************)
(* The three copies of the tolerant JSON extractor.  None (returned by the *)
(* last line of the job parser) and the empty string are both the empty    *)
(* text here: the only call site of each extractor tests its result for    *)
(* truthiness.                                                             *)
(***************************************************************************)
Nothing == <<>>

\* The mutant of GroqExtractJson: pattern 2 without the startswith/endswith test.
GroqExtractJson_AnyFence(c) ==
    LET json_start1 == Find(c, FenceJson, 0) + 7
        json_end1 == Find(c, Fence, json_start1)
        first_code_block == Find(c, Fence, 0) + 3
        second_code_block == Find(c, Fence, first_code_block)
        potential_json == Strip(Slice(c, first_code_block, second_code_block))
        json_start == Find(c, OpenBrace, 0)
        json_end == RFind(c, CloseBrace) + 1
        stripped == Strip(c)
    IN IF Contains(c, FenceJson) /\ json_end1 # -1
          THEN Strip(Slice(c, json_start1, json_end1))
       ELSE IF Contains(c, Fence) /\ second_code_block # -1
          THEN potential_json
       ELSE IF json_start # -1 /\ json_end > json_start
          THEN Slice(c, json_start, json_end)
       ELSE IF StartsWith(stripped, "{") /\ EndsWith(stripped, "}")
          THEN stripped
       ELSE Nothing

\* The mutant of GroqExtractJson: without the brace scan (pattern 3), so that
\* the whole-text pattern is the only one after the fences.
GroqExtractJson_NoBraceScan(c) ==
    LET json_start1 == Find(c, FenceJson, 0) + 7
        json_end1 == Find(c, Fence, json_start1)
        first_code_block == Find(c, Fence, 0) + 3
        second_code_block == Find(c, Fence, first_code_block)
        potential_json == Strip(Slice(c, first_code_block, second_code_block))
        stripped == Strip(c)
    IN IF Contains(c, FenceJson) /\ json_end1 # -1
          THEN Strip(Slice(c, json_start1, json_end1))
       ELSE IF /\ Contains(c, Fence)
               /\ second_code_block # -1
               /\ StartsWith(potential_json, "{")
               /\ EndsWith(potential_json, "}")
          THEN potential_json
       ELSE IF StartsWith(stripped, "{") /\ EndsWith(stripped, "}")
          THEN stripped
       ELSE Nothing

\* GroqResumeExtractor._extract_json_from_response
GroqExtractJson(c) ==
    LET json_start1 == Find(c, FenceJson, 0) + 7
        json_end1 == Find(c, Fence, json_start1)
        first_code_block == Find(c, Fence, 0) + 3
        second_code_block == Find(c, Fence, first_code_block)
        potential_json == Strip(Slice(c, first_code_block, second_code_block))
        json_start == Find(c, OpenBrace, 0)
        json_end == RFind(c, CloseBrace) + 1
        stripped == Strip(c)
    IN IF Contains(c, FenceJson) /\ json_end1 # -1
          THEN Strip(Slice(c, json_start1, json_end1))
       ELSE IF /\ Contains(c, Fence)
               /\ second_code_block # -1
               /\ StartsWith(potential_json, "{")
               /\ EndsWith(potential_json, "}")
          THEN potential_json
       ELSE IF json_start # -1 /\ json_end > json_start
          THEN Slice(c, json_start, json_end)
       ELSE IF StartsWith(stripped, "{") /\ EndsWith(stripped, "}")
          THEN stripped
       ELSE Nothing

\* The mutant of JobExtractJson: the fenced content is returned without .strip().
JobExtractJson_NoStrip(c) ==
    LET start1 == Find(c, FenceJson, 0) + 7
        end1 == Find(c, Fence, start1)
        start == Find(c, OpenBrace, 0)
        end == RFind(c, CloseBrace) + 1
        stripped == Strip(c)
    IN IF Contains(c, FenceJson) /\ end1 # -1
          THEN Slice(c, start1, end1)
       ELSE IF start # -1 /\ end > start
          THEN Slice(c, start, end)
       ELSE IF StartsWith(stripped, "{") /\ EndsWith(stripped, "}")
          THEN stripped
       ELSE Nothing

\* JobDescriptionParser._extract_json_from_response
JobExtractJson(c) ==
    LET start1 == Find(c, FenceJson, 0) + 7
        end1 == Find(c, Fence, start1)
        start == Find(c, OpenBrace, 0)
        end == RFind(c, CloseBrace) + 1
        stripped == Strip(c)
    IN IF Contains(c, FenceJson) /\ end1 # -1
          THEN Strip(Slice(c, start1, end1))
       ELSE IF start # -1 /\ end > start
          THEN Slice(c, start, end)
       ELSE IF StartsWith(stripped, "{") /\ EndsWith(stripped, "}")
          THEN stripped
       ELSE Nothing

\* The mutant of TailorExtractJson: the brace scan ends at the first }, not the last.
TailorExtractJson_FirstClose(c) ==
    LET start1 == Find(c, FenceJson, 0) + 7
        end1 == Find(c, Fence, start1)
        start == Find(c, OpenBrace, 0)
        end == Find(c, CloseBrace, 0) + 1
        stripped == Strip(c)
    IN IF Contains(c, FenceJson) /\ end1 # -1
          THEN Strip(Slice(c, start1, end1))
       ELSE IF start # -1 /\ end > start
          THEN Slice(c, start, end)
       ELSE IF StartsWith(stripped, "{") /\ EndsWith(stripped, "}")
          THEN stripped
       ELSE Nothing

\* CommandLineResumeGenerator._extract_json
TailorExtractJson(c) ==
    LET start1 == Find(c, FenceJson, 0) + 7
        end1 == Find(c, Fence, start1)
        start == Find(c, OpenBrace, 0)
        end == RFind(c, CloseBrace) + 1
        stripped == Strip(c)
    IN IF Contains(c, FenceJson) /\ end1 # -1
          THEN Strip(Slice(c, start1, end1))
       ELSE IF start # -1 /\ end > start
          THEN Slice(c, start, end)
       ELSE IF StartsWith(stripped, "{") /\ EndsWith(stripped, "}")
          THEN stripped
       ELSE Nothing

(***************************************************************************)
(* json.loads on the alphabet of the reply texts: of the texts made of     *)
(* backticks, the letters j s o n a, braces and blanks, the only JSON      *)
(* documents are an opening brace and a closing brace with blanks around   *)
(* and between them (the empty object).                                    *)
(***************************************************************************)
JsonLoadsOk(s) ==
    LET t == Strip(s)
    IN /\ Len(t) >= 2
       /\ t[1] = "{"
       /\ t[Len(t)] = "}"
       /\ \A i \in 2..(Len(t) - 1) : IsSpace(t[i])

\* The value json.loads returns for such a document: the empty dict.
EmptyObject == [k \in {} |-> ""]

(***************************************************************************)
(* Reply texts                                                             *)
(***************************************************************************)
Pieces == {FenceJson, Fence, OpenBrace, CloseBrace, <<" ">>, <<"a">>}

RECURSIVE TextsUpTo(_)
TextsUpTo(n) ==
    IF n = 0 THEN {<<>>}
    ELSE LET prev == TextsUpTo(n - 1)
         IN prev \cup {t \o p : t \in prev, p \in Pieces}

Texts == TextsUpTo(MaxPieces)

(***************************************************************************)
(* The remote stages                                                       *)
(***************************************************************************)
Placeholder == "YOUR_GROQ_API_KEY_HERE"
RealKey == "gsk_key"
ApiKeys == {Placeholder, RealKey}

\* What requests.post and the reading of the reply body can do:
\*   ok200             status 200, body holds choices[0].message.content
\*   bad_body          status 200, response.json() or the indexing raises
\*   status_error      another status code
\*   timeout           requests.exceptions.Timeout
\*   request_exception another requests.exceptions.RequestException
HttpOutcomes == {"ok200", "bad_body", "status_error", "timeout", "request_exception"}
NoRequest == "no_request"

NoEnvelope == [pending |-> TRUE]

ErrorOf(e) == IF "error" \in DOMAIN e THEN e.error ELSE ""

\* content[:200] + "..." if len(content) > 200 else content
RawResponse(c) ==
    IF Len(c) > 200 THEN Slice(c, 0, 200) \o <<".", ".", ".">> ELSE c

\* The mutant of GroqReplyEnvelope: the two error returns are exchanged.
GroqReplyEnvelope_Swapped(c) ==
    LET jt == GroqExtractJson(c)
    IN IF jt # Nothing
       THEN IF JsonLoadsOk(jt)
            THEN [success |-> TRUE, data |-> EmptyObject,
                  provider |-> "groq-openai/gpt-oss-20b",
                  raw_response |-> RawResponse(c)]
            ELSE [success |-> FALSE,
                  error |-> "Could not extract valid JSON from Groq response",
                  raw_response |-> c]
       ELSE [success |-> FALSE,
             error |-> "Invalid JSON response from Groq: ",
             raw_response |-> c]

\* extract_with_groq, the status 200 branch
GroqReplyEnvelope(c) ==
    LET jt == GroqExtractJson(c)
    IN IF jt # Nothing
       THEN IF JsonLoadsOk(jt)
            THEN [success |-> TRUE, data |-> EmptyObject,
                  provider |-> "groq-openai/gpt-oss-20b",
                  raw_response |-> RawResponse(c)]
            ELSE [success |-> FALSE,
                  error |-> "Invalid JSON response from Groq: ",
                  raw_response |-> c]
       ELSE [success |-> FALSE,
             error |-> "Could not extract valid JSON from Groq response",
             raw_response |-> c]

\* parse_job_description, the status 200 branch
JobReplyEnvelope(c) ==
    LET jd == JobExtractJson(c)
    IN IF jd # Nothing
       THEN IF JsonLoadsOk(jd)
            THEN [success |-> TRUE, data |-> EmptyObject,
                  model |-> "openai/gpt-oss-20b", timestamp |-> "now"]
            ELSE [success |-> FALSE,
                  error |-> "Invalid JSON in response: ",
                  raw_response |-> c]
       ELSE [success |-> FALSE,
             error |-> "No valid JSON found in response",
             raw_response |-> c]

\* tailor_resume, the status 200 branch
TailorReplyEnvelope(c) ==
    LET jd == TailorExtractJson(c)
    IN IF jd # Nothing
       THEN IF JsonLoadsOk(jd)
            THEN [success |-> TRUE, tailored_resume |-> EmptyObject,
                  model |-> "qwen-3-32b"]
            ELSE [success |-> FALSE, error |-> "Invalid JSON response: "]
       ELSE [success |-> FALSE, error |-> "No valid JSON found in response"]

\* str(e): the text of the exception requests.post or the reading of the body
\* raised.  The library writes it; a ConnectionError raised while the body is
\* read carries the text of a read timeout.
ExceptionTexts == {"Read timed out.", "Connection refused"}

\* The texts a call can see: only a request that raised has one.
DetailsFor(key, argOk, http) ==
    IF key = RealKey /\ argOk /\ http \in {"bad_body", "timeout", "request_exception"}
    THEN ExceptionTexts ELSE {""}

\* extract_with_groq: the error of a request that did not answer 200 with a
\* readable body
GroqFailureError(http, detail) ==
    CASE http = "bad_body" -> "Groq extraction failed: " \o detail
      [] http = "status_error" -> "Groq API error: "
      [] http = "timeout" -> "Groq API request timed out"
      [] http = "request_exception" -> "Groq API request failed: " \o detail

\* parse_job_description: the same
JobFailureError(http, detail) ==
    CASE http = "bad_body" -> "Unexpected error: " \o detail
      [] http = "status_error" -> "API error: "
      [] http = "timeout" -> "Request timeout - please try again"
      [] http = "request_exception" -> "Network error: " \o detail

\* tailor_resume: the same; one except clause catches every exception
TailorFailureError(http, detail) ==
    CASE http = "status_error" -> "API error: "
      [] OTHER -> "Resume tailoring failed: " \o detail

\* The reply texts a call can read: only a well-formed 200 reply has one.
TextsFor(key, argOk, http) ==
    IF key = RealKey /\ argOk /\ http = "ok200" THEN Texts ELSE {<<>>}

\* The mutant of IsPlaceholder: the stage never recognises the placeholder.
IsPlaceholder_Never(key) == FALSE

\* self.api_key == "YOUR_GROQ_API_KEY_HERE", the test each stage makes before
\* it builds its request.
IsPlaceholder(key) == key = Placeholder

StageInit ==
    /\ stPc = "idle"
    /\ stStage = "none"
    /\ stKey = Placeholder
    /\ stArgOk = TRUE
    /\ stHttp = NoRequest
    /\ content = <<>>
    /\ json_text = Nothing
    /\ envelope = NoEnvelope
    /\ requests = 0

\* GroqResumeExtractor.extract_with_groq
ExtractWithGroq ==
    /\ stPc = "idle"
    /\ \E key \in ApiKeys, http \in HttpOutcomes :
        \E text \in TextsFor(key, TRUE, http), detail \in DetailsFor(key, TRUE, http) :
          /\ stStage' = "extract_with_groq"
          /\ stKey' = key
          /\ stArgOk' = TRUE
          /\ IF IsPlaceholder(key)
             THEN /\ stHttp' = NoRequest
                  /\ requests' = requests
                  /\ content' = <<>>
                  /\ json_text' = Nothing
                  /\ envelope' = [success |-> FALSE,
                        error |-> "Please replace 'YOUR_GROQ_API_KEY_HERE' with your actual Groq API key in the code"]
             ELSE /\ stHttp' = http
                  /\ requests' = requests + 1
                  /\ content' = IF http = "ok200" THEN text ELSE <<>>
                  /\ json_text' = IF http = "ok200" THEN GroqExtractJson(text) ELSE Nothing
                  /\ envelope' =
                       IF http = "ok200" THEN GroqReplyEnvelope(text)
                       ELSE [success |-> FALSE, error |-> GroqFailureError(http, detail)]
    /\ stPc' = "returned"
    /\ UNCHANGED <<runVars, batchVars, toolVars>>

\* JobDescriptionParser.parse_job_description
ParseJobDescription ==
    /\ stPc = "idle"
    /\ \E key \in ApiKeys, argOk \in BOOLEAN, http \in HttpOutcomes :
        \E text \in TextsFor(key, argOk, http), detail \in DetailsFor(key, argOk, http) :
          /\ stStage' = "parse_job_description"
          /\ stKey' = key
          /\ stArgOk' = argOk
          /\ IF ~argOk
             THEN /\ stHttp' = NoRequest
                  /\ requests' = requests
                  /\ content' = <<>>
                  /\ json_text' = Nothing
                  /\ envelope' = [success |-> FALSE,
                                  error |-> "Job description text is empty"]
             ELSE IF IsPlaceholder(key)
             THEN /\ stHttp' = NoRequest
                  /\ requests' = requests
                  /\ content' = <<>>
                  /\ json_text' = Nothing
                  /\ envelope' = [success |-> FALSE,
                        error |-> "Please set your Groq API key. Replace YOUR_GROQ_API_KEY_HERE with your actual key."]
             ELSE /\ stHttp' = http
                  /\ requests' = requests + 1
                  /\ content' = IF http = "ok200" THEN text ELSE <<>>
                  /\ json_text' = IF http = "ok200" THEN JobExtractJson(text) ELSE Nothing
                  /\ envelope' =
                       IF http = "ok200" THEN JobReplyEnvelope(text)
                       ELSE [success |-> FALSE, error |-> JobFailureError(http, detail)]
    /\ stPc' = "returned"
    /\ UNCHANGED <<runVars, batchVars, toolVars>>

\* CommandLineResumeGenerator.tailor_resume
TailorResume ==
    /\ stPc = "idle"
    /\ \E key \in ApiKeys, http \in HttpOutcomes :
        \E text \in TextsFor(key, TRUE, http), detail \in DetailsFor(key, TRUE, http) :
          /\ stStage' = "tailor_resume"
          /\ stKey' = key
          /\ stArgOk' = TRUE
          /\ IF IsPlaceholder(key)
             THEN /\ stHttp' = NoRequest
                  /\ requests' = requests
                  /\ content' = <<>>
                  /\ json_text' = Nothing
                  /\ envelope' = [success |-> FALSE,
                        error |-> "API key not set. Use --api-key option or edit the code."]
             ELSE /\ stHttp' = http
                  /\ requests' = requests + 1
                  /\ content' = IF http = "ok200" THEN text ELSE <<>>
                  /\ json_text' = IF http = "ok200" THEN TailorExtractJson(text) ELSE Nothing
                  /\ envelope' =
                       IF http = "ok200" THEN TailorReplyEnvelope(text)
                       ELSE [success |-> FALSE, error |-> TailorFailureError(http, detail)]
    /\ stPc' = "returned"
    /\ UNCHANGED <<runVars, batchVars, toolVars>>

(***************************************************************************)
(* ResumeCustomizationSystem: the schema mapping of process_cv             *)
(***************************************************************************)
NoneValue == "None"

\* dict.get(k, default)
Get(d, k, default) == IF k \in DOMAIN d THEN d[k] ELSE default

\* the personal_info literal of mapped_data
MapPersonalInfo(pd) ==
    [name |-> Get(pd, "name", ""),
     email |-> Get(pd, "email", ""),
     phone |-> Get(pd, "phone", ""),
     location |-> Get(pd, "address", ""),
     linkedin |-> Get(pd, "linkedin", ""),
     portfolio |-> Get(pd, "website", "")]

\* The mutant of MapExperience: start_date and end_date are exchanged in duration.
MapExperience_Swapped(exp) ==
    [position |-> Get(exp, "position", ""),
     company |-> Get(exp, "company", ""),
     location |-> Get(exp, "location", ""),
     duration |-> Get(exp, "end_date", "") \o " - " \o Get(exp, "start_date", ""),
     achievements |-> <<Get(exp, "description", "")>>]

\* the mapped_exp literal of the work experience loop
MapExperience(exp) ==
    [position |-> Get(exp, "position", ""),
     company |-> Get(exp, "company", ""),
     location |-> Get(exp, "location", ""),
     duration |-> Get(exp, "start_date", "") \o " - " \o Get(exp, "end_date", ""),
     achievements |-> <<Get(exp, "description", "")>>]

\* The subscripts cv_data["personal_details"] and cv_data["skills"] raise
\* KeyError when the key is missing; process_cv and run() catch nothing.
MappingRaises(cv) ==
    "personal_details" \notin DOMAIN cv \/ "skills" \notin DOMAIN cv

\* mapped_data after the work experience loop
MappedData(cv) ==
    LET work == Get(cv, "work_experience", <<>>)
    IN [personal_info |-> MapPersonalInfo(cv["personal_details"]),
        professional_summary |-> Get(cv, "summary", ""),
        core_competencies |-> Get(cv["skills"], "technical_skills", <<>>),
        professional_experience |-> [i \in 1..Len(work) |-> MapExperience(work[i])],
        education |-> Get(cv, "education", <<>>),
        technical_skills |->
            [programming_languages |-> <<>>,
             frameworks_tools |-> <<>>,
             databases |-> <<>>,
             other_technical |-> Get(cv["skills"], "technical_skills", <<>>)],
        projects |-> Get(cv, "projects", <<>>),
        certifications |-> Get(cv, "certifications", <<>>)]

(***************************************************************************)
(* The extracted objects process_resume can hand to process_cv: what       *)
(* json.loads made of the reply, any JSON object.  Each key of the prompt  *)
(* schema is present or missing.                                           *)
(***************************************************************************)
Restrict(f, S) == [k \in S |-> f[k]]

FullPersonalDetails ==
    [name |-> "Ann Lee", email |-> "ann@x.org", phone |-> "555",
     address |-> "Oslo", linkedin |-> "in/ann", github |-> "gh/ann",
     website |-> "ann.dev"]

PersonalDetailsChoices ==
    {FullPersonalDetails, Restrict(FullPersonalDetails, {"name", "github"}),
     Restrict(FullPersonalDetails, {})}

SkillsChoices ==
    {[technical_skills |-> <<"Python", "SQL">>, soft_skills |-> <<"Writing">>],
     Restrict([technical_skills |-> <<>>], {})}

FullEntry ==
    [company |-> "Acme", position |-> "Dev", start_date |-> "2019",
     end_date |-> "2021", location |-> "Oslo", description |-> "Built X"]

ExpEntries ==
    {FullEntry,
     [company |-> "Init", position |-> "Lead", start_date |-> "2021",
      end_date |-> "Present", location |-> "", description |-> "Led Y"],
     Restrict(FullEntry, {"position", "start_date"})}

RECURSIVE SeqsUpTo(_, _)
SeqsUpTo(S, n) ==
    IF n = 0 THEN {<<>>}
    ELSE LET prev == SeqsUpTo(S, n - 1)
         IN prev \cup {Append(q, x) : q \in prev, x \in S}

FullResume ==
    [personal_details |-> FullPersonalDetails,
     skills |-> [technical_skills |-> <<"Python", "SQL">>],
     work_experience |-> <<>>,
     summary |-> "Engineer",
     education |-> <<[degree |-> "MSc", institution |-> "NTNU"]>>,
     projects |-> <<[name |-> "P1"]>>,
     certifications |-> <<[name |-> "AWS"]>>]

OptionalKeys == {"summary", "education", "projects", "certifications"}

\* Every choice of present keys; the optional four are all there, all
\* missing, or one alone.
KeySets ==
    {top \cup opt :
        top \in SUBSET {"personal_details", "skills", "work_experience"},
        opt \in {OptionalKeys, {}} \cup {{k} : k \in OptionalKeys}}

ExtractedObjects ==
    {Restrict([FullResume EXCEPT !.personal_details = pd, !.skills = sk,
                                 !.work_experience = we], ks) :
        pd \in PersonalDetailsChoices, sk \in SkillsChoices,
        we \in SeqsUpTo(ExpEntries, MaxExp), ks \in KeySets}

(***************************************************************************)
(* ResumeCustomizationSystem.run                                           *)
(***************************************************************************)
StageOrder ==
    <<"validate_inputs", "process_cv", "process_job_description",
      "generate_tailored_resume", "create_output_file">>

\* A path as pathlib.Path splits it.
CvFiles ==
    {[stem |-> "cv", suffix |-> ".pdf"], [stem |-> "cv2", suffix |-> ".docx"],
     [stem |-> "notes", suffix |-> ".txt"]}
JobFiles == {[stem |-> "job", suffix |-> ".txt"]}
PathStr(f) == f.stem \o f.suffix

Formats == {"docx", "PDF", "rtf"}

\* str.lower on the strings of the model
Lower(x) == IF x = "PDF" THEN "pdf" ELSE x

\* validate_inputs
ValidateInputsResult(cvExists, jobExists) ==
    LET cvErr == IF ~cvExists
                 THEN <<"CV file not found: " \o PathStr(cv_file)>>
                 ELSE IF Lower(cv_file.suffix) \notin {".pdf", ".docx", ".doc"}
                 THEN <<"Unsupported CV format: " \o Lower(cv_file.suffix)
                          \o ". Use PDF or DOCX.">>
                 ELSE <<>>
        jobErr == IF ~jobExists
                  THEN <<"Job description file not found: " \o PathStr(job_file)>>
                  ELSE <<>>
        errors == cvErr \o jobErr
    IN [valid |-> Len(errors) = 0, errors |-> errors]

\* The mutant of StageSucceeded: the test after a stage is dropped.
StageSucceeded_Always(r) == TRUE

\* if not x_result["success"]: return x_result
StageSucceeded(r) == r.success

(***************************************************************************)
(* DocumentConverter and GroqResumeProcessor.process_resume                *)
(***************************************************************************)
SupportedFormats == {".pdf", ".docx", ".doc"}

\* if not resume_text or len(resume_text.strip()) < 50
MinTextLength == 50

Rep(c, n) == [i \in 1..n |-> c]

\* What the PDF or DOCX library hands back for the file: it raises, or it
\* yields the cleaned text the converter then strips.
RawTexts ==
    {<<>>, Rep(" ", MinTextLength + 10), Rep("x", MinTextLength - 1),
     <<" ">> \o Rep("x", MinTextLength - 1) \o <<" ">>,
     Rep("x", MinTextLength), <<" ">> \o Rep("x", MinTextLength)}

LibraryOutcomes ==
    {[raises |-> TRUE]} \cup {[raises |-> FALSE, text |-> t] : t \in RawTexts}

\* extract_from_pdf
ExtractFromPdf(out) ==
    IF out.raises
    THEN [text |-> <<>>, format |-> "pdf", error |-> "PDF extraction failed: "]
    ELSE [text |-> Strip(out.text), format |-> "pdf",
          extraction_method |-> "pdfplumber"]

\* extract_from_docx
ExtractFromDocx(out) ==
    IF out.raises
    THEN [text |-> <<>>, format |-> "docx", error |-> "DOCX extraction failed: "]
    ELSE [text |-> Strip(out.text), format |-> "docx"]

\* extract_from_file, on the file cv_file
ExtractFromFile(exists, out) ==
    IF ~exists
    THEN [text |-> <<>>, error |-> "File not found: " \o PathStr(cv_file)]
    ELSE IF Lower(cv_file.suffix) \notin SupportedFormats
    THEN [text |-> <<>>,
          error |-> "Unsupported file format: " \o Lower(cv_file.suffix)]
    ELSE IF Lower(cv_file.suffix) = ".pdf" THEN ExtractFromPdf(out)
    ELSE ExtractFromDocx(out)

\* The dicts extract_from_file can return for cv_file.
DocResults ==
    {ExtractFromFile(exists, out) : exists \in BOOLEAN, out \in LibraryOutcomes}

\* path.exists() raised (OSError): the except clause of process_resume returns.
DocRaised == [raised |-> TRUE]

\* The mutant of TextTooShort: a text of exactly MinTextLength is refused.
TextTooShort_Inclusive(resume_text) ==
    Len(resume_text) = 0 \/ Len(Strip(resume_text)) <= MinTextLength

\* not resume_text or len(resume_text.strip()) < 50
TextTooShort(resume_text) ==
    Len(resume_text) = 0 \/ Len(Strip(resume_text)) < MinTextLength

\* process_resume stops before the remote extraction.
StopsBeforeExtraction(doc) ==
    doc = DocRaised \/ ~Get(doc, "success", TRUE) \/ TextTooShort(doc.text)

\* The envelopes extract_resume_data can return to process_resume.
ExtractionResults ==
    {[success |-> FALSE, error |-> e] :
        e \in {"Groq API request timed out",
               "Could not extract valid JSON from Groq response"}}
    \cup {[success |-> TRUE, data |-> d] : d \in ExtractedObjects}

\* process_resume, given what extract_from_file and extract_resume_data gave
ProcessResume(doc, extraction_result) ==
    IF doc = DocRaised
    THEN [success |-> FALSE, error |-> "Unexpected error: ",
          file_path |-> PathStr(cv_file)]
    ELSE IF ~Get(doc, "success", TRUE)
    THEN [success |-> FALSE,
          error |-> "Document conversion failed: " \o Get(doc, "error", "Unknown error"),
          file_path |-> PathStr(cv_file)]
    ELSE IF TextTooShort(doc.text)
    THEN [success |-> FALSE, error |-> "Extracted text is too short or empty",
          file_path |-> PathStr(cv_file), text_length |-> Len(doc.text)]
    ELSE IF ~extraction_result.success
    THEN [success |-> FALSE,
          error |-> "Data extraction failed: " \o extraction_result.error,
          file_path |-> PathStr(cv_file)]
    ELSE [success |-> TRUE, file_path |-> PathStr(cv_file),
          extracted_data |-> extraction_result.data]

\* process_file returns before the parser is called.
ProcessFileReadFailures ==
    {[success |-> FALSE, error |-> e, source |-> "file:" \o PathStr(job_file)] :
        e \in {"File not found: " \o PathStr(job_file),
               "File is empty or could not be read"}}

\* The results JobProcessor.process_file returns.
ProcessFileResults ==
    ProcessFileReadFailures
    \cup
    {[success |-> FALSE, error |-> "No valid JSON found in response",
      source |-> "file:" \o PathStr(job_file)]}
    \cup
    {[success |-> TRUE, data |-> d, source |-> "file:" \o PathStr(job_file)] :
        d \in {[job_title |-> "Engineer", company_name |-> "Acme"],
               Restrict([job_title |-> ""], {})}}

\* The results CommandLineResumeGenerator.tailor_resume returns.
TailorResumeResults ==
    {[success |-> FALSE, error |-> "Invalid JSON response: "],
     [success |-> FALSE, error |-> "Resume tailoring failed: "],
     [success |-> TRUE, tailored_resume |-> [professional_summary |-> "Tailored"],
      model |-> "qwen-3-32b"]}

\* The results generate_docx and generate_pdf return.
GenerateDocxResults(path) ==
    {[success |-> TRUE, output_path |-> path, format |-> "DOCX"],
     [success |-> FALSE, error |-> "DOCX generation failed: "]}

GeneratePdfResults(path) ==
    {[success |-> TRUE, output_path |-> path, format |-> "PDF"],
     [success |-> FALSE,
      error |-> "Pandoc not found. Install from: https://pandoc.org/installing.html"],
     [success |-> FALSE, error |-> "Pandoc conversion failed: "]}

\* create_output_file
CreateOutputFileResults(path) ==
    IF Lower(format_type) = "docx" THEN GenerateDocxResults(path)
    ELSE IF Lower(format_type) = "pdf" THEN GeneratePdfResults(path)
    ELSE {[success |-> FALSE,
           error |-> "Unsupported output format: " \o format_type]}

\* The mutant of OutputPath: the extension is format_type as given.
OutputPath_NoLower ==
    LET name == IF output_name = NoneValue
                THEN cv_file.stem \o "_tailored_for_" \o job_file.stem \o "_" \o "ts"
                ELSE output_name
    IN name \o "." \o format_type

\* output_path of run(): the given name, or one built from the stems and the time.
OutputPath ==
    LET name == IF output_name = NoneValue
                THEN cv_file.stem \o "_tailored_for_" \o job_file.stem \o "_" \o "ts"
                ELSE output_name
    IN name \o "." \o Lower(format_type)

RunIdle ==
    /\ runPc = "idle"
    /\ cv_file = [stem |-> "", suffix |-> ""]
    /\ job_file = [stem |-> "", suffix |-> ""]
    /\ output_name = NoneValue
    /\ format_type = "docx"
    /\ calls = <<>>
    /\ reports = <<>>
    /\ doc_result = NoEnvelope
    /\ remote = <<>>
    /\ cv_data = <<>>
    /\ cv_result = NoEnvelope
    /\ job_result = NoEnvelope
    /\ tailored_result = NoEnvelope
    /\ result = NoEnvelope

RunInit ==
    /\ runPc = "start"
    /\ cv_file \in CvFiles
    /\ job_file \in JobFiles
    /\ output_name \in {NoneValue, "out/custom"}
    /\ format_type \in Formats
    /\ calls = <<>>
    /\ reports = <<>>
    /\ doc_result = NoEnvelope
    /\ remote = <<>>
    /\ cv_data = <<>>
    /\ cv_result = NoEnvelope
    /\ job_result = NoEnvelope
    /\ tailored_result = NoEnvelope
    /\ result = NoEnvelope

Report(r) == IF r.success THEN "success" ELSE "failure"

\* run(), step 1
ValidateInputs ==
    /\ runPc = "start"
    /\ \E cvExists \in BOOLEAN, jobExists \in BOOLEAN :
         LET validation == ValidateInputsResult(cvExists, jobExists)
         IN /\ calls' = Append(calls, "validate_inputs")
            /\ reports' = Append(reports, IF validation.valid THEN "success" ELSE "failure")
            /\ IF ~validation.valid
               THEN /\ result' = [success |-> FALSE, errors |-> validation.errors]
                    /\ runPc' = "returned"
               ELSE /\ result' = result
                    /\ runPc' = "validated"
    /\ UNCHANGED <<cv_file, job_file, output_name, format_type, doc_result,
                   remote, cv_data, cv_result, job_result, tailored_result>>
    /\ UNCHANGED <<stageVars, batchVars, toolVars>>

\* run(), step 2: process_cv and the test of its result
ProcessCv ==
    /\ runPc = "validated"
    /\ calls' = Append(calls, "process_cv")
    /\ \E doc \in DocResults \cup {DocRaised} :
       \E extraction_result \in
             IF StopsBeforeExtraction(doc) THEN {NoEnvelope} ELSE ExtractionResults :
         LET res == ProcessResume(doc, extraction_result)
         IN /\ doc_result' = doc
            /\ remote' = IF StopsBeforeExtraction(doc) THEN remote
                         ELSE Append(remote, "extract_resume_data")
            /\ IF ~res.success
               THEN LET r == [success |-> FALSE,
                              error |-> "CV processing failed: " \o res.error]
                    IN /\ cv_data' = cv_data
                       /\ cv_result' = r
                       /\ reports' = Append(reports, "failure")
                       /\ IF StageSucceeded(r)
                          THEN runPc' = "cv_done" /\ result' = result
                          ELSE runPc' = "returned" /\ result' = r
               ELSE /\ cv_data' = res.extracted_data
                    /\ IF MappingRaises(res.extracted_data)
                       THEN /\ cv_result' = cv_result
                            /\ reports' = Append(reports, "raised")
                            /\ runPc' = "raised"
                            /\ result' = result
                       ELSE LET r == [success |-> TRUE,
                                      data |-> MappedData(res.extracted_data),
                                      metadata |-> <<>>]
                            IN /\ cv_result' = r
                               /\ reports' = Append(reports, "success")
                               /\ IF StageSucceeded(r)
                                  THEN runPc' = "cv_done" /\ result' = result
                                  ELSE runPc' = "returned" /\ result' = r
    /\ UNCHANGED <<cv_file, job_file, output_name, format_type,
                   job_result, tailored_result>>
    /\ UNCHANGED <<stageVars, batchVars, toolVars>>

\* run(), step 3: process_job_description and the test of its result
ProcessJobDescription ==
    /\ runPc = "cv_done"
    /\ calls' = Append(calls, "process_job_description")
    /\ \E res \in ProcessFileResults :
         LET r == IF ~res.success
                  THEN [success |-> FALSE,
                        error |-> "Job processing failed: " \o res.error]
                  ELSE res
         IN /\ job_result' = r
            /\ remote' = IF res \in ProcessFileReadFailures THEN remote
                         ELSE Append(remote, "parse_job_description")
            /\ reports' = Append(reports, Report(r))
            /\ IF StageSucceeded(r)
               THEN runPc' = "job_done" /\ result' = result
               ELSE runPc' = "returned" /\ result' = r
    /\ UNCHANGED <<cv_file, job_file, output_name, format_type, doc_result,
                   cv_data, cv_result, tailored_result>>
    /\ UNCHANGED <<stageVars, batchVars, toolVars>>

\* run(), step 4: generate_tailored_resume and the test of its result
GenerateTailoredResume ==
    /\ runPc = "job_done"
    /\ calls' = Append(calls, "generate_tailored_resume")
    /\ \E res \in TailorResumeResults :
         LET r == IF ~res.success
                  THEN [success |-> FALSE,
                        error |-> "Resume tailoring failed: " \o res.error]
                  ELSE res
         IN /\ tailored_result' = r
            /\ remote' = Append(remote, "tailor_resume")
            /\ reports' = Append(reports, Report(r))
            /\ IF StageSucceeded(r)
               THEN runPc' = "tailored" /\ result' = result
               ELSE runPc' = "returned" /\ result' = r
    /\ UNCHANGED <<cv_file, job_file, output_name, format_type, doc_result,
                   cv_data, cv_result, job_result>>
    /\ UNCHANGED <<stageVars, batchVars, toolVars>>

\* run(), step 5: create_output_file, the test of its result, the success return
CreateOutputFile ==
    /\ runPc = "tailored"
    /\ calls' = Append(calls, "create_output_file")
    /\ \E file_result \in CreateOutputFileResults(OutputPath) :
         /\ reports' = Append(reports, Report(file_result))
         /\ runPc' = "returned"
         /\ IF StageSucceeded(file_result)
            THEN result' =
                   [success |-> TRUE,
                    output_file |-> OutputPath,
                    job_title |-> Get(job_result.data, "job_title", "target position"),
                    company |-> Get(job_result.data, "company_name", "target company"),
                    candidate_name |-> cv_result.data.personal_info.name,
                    file_info |-> file_result]
            ELSE result' = file_result
    /\ UNCHANGED <<cv_file, job_file, output_name, format_type, doc_result,
                   remote, cv_data, cv_result, job_result, tailored_result>>
    /\ UNCHANGED <<stageVars, batchVars, toolVars>>

(***************************************************************************)
(* BatchProcessor                                                          *)
(***************************************************************************)
\* The files the two directories can hold; the names are written with their
\* extension.  NameOrder lists the names as sorted() orders the paths.
CvPool ==
    {[stem |-> "alice", suffix |-> ".docx"], [stem |-> "alice", suffix |-> ".pdf"],
     [stem |-> "bob", suffix |-> ".pdf"]}
JobPool == {[stem |-> "job_a", suffix |-> ".txt"], [stem |-> "job_b", suffix |-> ".md"]}
Stray == [stem |-> "notes", suffix |-> ".rtf"]

NameOrder ==
    <<"alice.docx", "alice.pdf", "bob.pdf", "job_a.txt", "job_b.md", "notes.rtf">>

Rank(f) == CHOOSE k \in 1..Len(NameOrder) : NameOrder[k] = PathStr(f)

CvExtensions == {".pdf", ".docx", ".doc"}
JobExtensions == {".txt", ".md"}

\* sorted(files)
RECURSIVE Sorted(_)
Sorted(S) ==
    IF S = {} THEN <<>>
    ELSE LET m == CHOOSE x \in S : \A y \in S : Rank(x) <= Rank(y)
         IN <<m>> \o Sorted(S \ {m})

\* The mutant of FindFiles: the files are returned in the reverse order, one
\* of the orders glob can list them in.
RECURSIVE Reversed(_)
Reversed(S) ==
    IF S = {} THEN <<>>
    ELSE LET m == CHOOSE x \in S : \A y \in S : Rank(x) >= Rank(y)
         IN <<m>> \o Reversed(S \ {m})

FindFiles_Unsorted(directory, extensions) ==
    Reversed({f \in directory : f.suffix \in extensions})

\* find_files: the files of the directory whose name ends in one of the
\* extensions, sorted.
FindFiles(directory, extensions) ==
    Sorted({f \in directory : f.suffix \in extensions})

\* total_combinations
TotalCombinations == Len(cv_files) * Len(job_files)

\* output_name of a combination: output_dir / the two stems and the time
BatchOutputName(cv, job) == "out/" \o cv.stem \o "_for_" \o job.stem \o "_ts"

\* run() ended by an exception (the KeyError of process_cv).
RunRaised == [raised |-> TRUE, message |-> "'skills'"]

\* What run() does for the pair (cv_file, job_file): it returns the
\* validation failure, the failure of a later stage or the success result, or
\* it raises.
RunOutcomes(cvExists, jobExists) ==
    LET validation == ValidateInputsResult(cvExists, jobExists)
    IN IF ~validation.valid
       THEN {[success |-> FALSE, errors |-> validation.errors]}
       ELSE {[success |-> FALSE,
              error |-> "CV processing failed: Extracted text is too short or empty"]}
            \cup {RunRaised}
            \cup {[success |-> TRUE,
                   output_file |-> OutputPath,
                   job_title |-> "Engineer",
                   company |-> "Acme",
                   candidate_name |-> "Ann Lee",
                   file_info |-> [success |-> TRUE, output_path |-> OutputPath]]}

\* The status the loop body records for an outcome of run().
StatusOf(outcome) ==
    IF outcome = RunRaised THEN "exception"
    ELSE IF outcome.success THEN "success"
    ELSE "failed"

\* The dict the loop body appends to self.results.
ResultEntry(outcome) ==
    IF outcome = RunRaised
    THEN [status |-> "exception", cv_file |-> PathStr(cv_file),
          job_file |-> PathStr(job_file), error |-> outcome.message]
    ELSE IF outcome.success
    THEN [status |-> "success", cv_file |-> PathStr(cv_file),
          job_file |-> PathStr(job_file), output_file |-> outcome.output_file,
          candidate |-> Get(outcome, "candidate_name", "Unknown"),
          job_title |-> Get(outcome, "job_title", "Unknown"),
          company |-> Get(outcome, "company", "Unknown")]
    ELSE [status |-> "failed", cv_file |-> PathStr(cv_file),
          job_file |-> PathStr(job_file),
          error |-> Get(outcome, "error", "Unknown error")]

\* The mutant of FailedIncrement: an exception is not counted as failed.
FailedIncrement_NoException(status) == IF status = "failed" THEN 1 ELSE 0

\* failed += 1, in the else branch and in the except clause
FailedIncrement(status) == IF status \in {"failed", "exception"} THEN 1 ELSE 0

\* successful += 1
SuccessfulIncrement(status) == IF status = "success" THEN 1 ELSE 0

\* sum(1 for r in self.results if r["status"] == "success")
RECURSIVE CountStatus(_, _)
CountStatus(rs, status) ==
    IF Len(rs) = 0 THEN 0
    ELSE (IF rs[1].status = status THEN 1 ELSE 0) + CountStatus(Tail(rs), status)

\* An entry left in self.results by an earlier process_batch call.
EarlierEntry ==
    [status |-> "exception", cv_file |-> "old.pdf", job_file |-> "old.txt",
     error |-> "'skills'"]

NoReport == [written |-> FALSE]

BatchIdle ==
    /\ bPc = "idle"
    /\ cvs_dir = {}
    /\ jobs_dir = {}
    /\ cv_files = <<>>
    /\ job_files = <<>>
    /\ loop_i = 0
    /\ loop_j = 0
    /\ successful = 0
    /\ failed = 0
    /\ results = <<>>
    /\ results_before = <<>>
    /\ invoked = <<>>
    /\ exists_log = <<>>
    /\ batch_result = NoEnvelope
    /\ report = NoReport

BatchInit ==
    /\ bPc = "start"
    /\ cvs_dir \in {S \cup {Stray} : S \in {T \in SUBSET CvPool : Cardinality(T) <= MaxCvs}}
    /\ jobs_dir \in {S \cup {Stray} : S \in SUBSET JobPool}
    /\ cv_files = <<>>
    /\ job_files = <<>>
    /\ loop_i = 0
    /\ loop_j = 0
    /\ successful = 0
    /\ failed = 0
    /\ results \in {<<>>, <<EarlierEntry>>}
    /\ results_before = results
    /\ invoked = <<>>
    /\ exists_log = <<>>
    /\ batch_result = NoEnvelope
    /\ report = NoReport

\* process_batch up to the loop: the two find_files calls, the two early
\* returns, the counters
BatchStart ==
    /\ bPc = "start"
    /\ cv_files' = FindFiles(cvs_dir, CvExtensions)
    /\ job_files' = FindFiles(jobs_dir, JobExtensions)
    /\ IF Len(cv_files') = 0
       THEN /\ batch_result' = [success |-> FALSE, error |-> "No CV files found in cvs"]
            /\ bPc' = "done"
            /\ UNCHANGED <<loop_i, loop_j>>
       ELSE IF Len(job_files') = 0
       THEN /\ batch_result' = [success |-> FALSE, error |-> "No job files found in jobs"]
            /\ bPc' = "done"
            /\ UNCHANGED <<loop_i, loop_j>>
       ELSE /\ batch_result' = batch_result
            /\ bPc' = "loop"
            /\ loop_i' = 1
            /\ loop_j' = 1
    /\ successful' = 0
    /\ failed' = 0
    /\ UNCHANGED <<cvs_dir, jobs_dir, results, results_before, invoked,
                   exists_log, report>>
    /\ UNCHANGED <<stageVars, runVars, toolVars>>

\* The loop body up to the call: the next pair, its output name, run() is
\* entered.
BatchInvoke ==
    /\ bPc = "loop"
    /\ loop_i <= Len(cv_files)
    /\ cv_file' = cv_files[loop_i]
    /\ job_file' = job_files[loop_j]
    /\ output_name' = BatchOutputName(cv_files[loop_i], job_files[loop_j])
    /\ runPc' = "start"
    /\ result' = NoEnvelope
    /\ invoked' = Append(invoked, <<cv_files[loop_i], job_files[loop_j]>>)
    /\ bPc' = "calling"
    /\ UNCHANGED <<format_type, calls, reports, doc_result, remote, cv_data,
                   cv_result, job_result, tailored_result>>
    /\ UNCHANGED <<cvs_dir, jobs_dir, cv_files, job_files, loop_i, loop_j,
                   successful, failed, results, results_before, exists_log,
                   batch_result, report>>
    /\ UNCHANGED <<stageVars, toolVars>>

\* run() returns or raises; the loop body records the outcome and moves on to
\* the next pair.
BatchRecord ==
    /\ bPc = "calling"
    /\ \E cvExists \in BOOLEAN, jobExists \in BOOLEAN :
       \E outcome \in RunOutcomes(cvExists, jobExists) :
         /\ exists_log' = Append(exists_log, [cv |-> cvExists, job |-> jobExists])
         /\ runPc' = IF outcome = RunRaised THEN "raised" ELSE "returned"
         /\ result' = IF outcome = RunRaised THEN result ELSE outcome
         /\ results' = Append(results, ResultEntry(outcome))
         /\ successful' = successful + SuccessfulIncrement(StatusOf(outcome))
         /\ failed' = failed + FailedIncrement(StatusOf(outcome))
    /\ IF loop_j < Len(job_files)
       THEN loop_j' = loop_j + 1 /\ loop_i' = loop_i
       ELSE loop_j' = 1 /\ loop_i' = loop_i + 1
    /\ bPc' = "loop"
    /\ UNCHANGED <<cv_file, job_file, output_name, format_type, calls, reports,
                   doc_result, remote, cv_data, cv_result, job_result,
                   tailored_result>>
    /\ UNCHANGED <<cvs_dir, jobs_dir, cv_files, job_files, results_before,
                   invoked, batch_result, report>>
    /\ UNCHANGED <<stageVars, toolVars>>

\* process_batch after the loop: the summary dict
BatchReturn ==
    /\ bPc = "loop"
    /\ loop_i > Len(cv_files)
    /\ batch_result' =
         [success |-> TRUE, total_processed |-> TotalCombinations,
          successful |-> successful, failed |-> failed, results |-> results,
          output_directory |-> "out"]
    /\ bPc' = "done"
    /\ UNCHANGED <<cvs_dir, jobs_dir, cv_files, job_files, loop_i, loop_j,
                   successful, failed, results, results_before, invoked,
                   exists_log, report>>
    /\ UNCHANGED <<stageVars, runVars, toolVars>>

\* save_report, called by main() after a batch that returned success: the
\* three totals of the report
SaveReport ==
    /\ bPc = "done"
    /\ batch_result.success
    /\ report = NoReport
    /\ report' =
         [written |-> TRUE,
          total |-> Len(results),
          successful |-> CountStatus(results, "success"),
          failed |-> Len(results) - CountStatus(results, "success")]
    /\ UNCHANGED <<bPc, cvs_dir, jobs_dir, cv_files, job_files, loop_i, loop_j,
                   successful, failed, results, results_before, invoked,
                   exists_log, batch_result>>
    /\ UNCHANGED <<stageVars, runVars, toolVars>>

(***************************************************************************)
(* main(): the command line of main.py                                     *)
(***************************************************************************)
\* --format has choices docx and pdf.
CliFormats == {"docx", "pdf"}

\* The code the process ends with when main() returns without sys.exit.
ExitNormally == 0

\* KeyboardInterrupt reached the except clause of main().
Interrupted == [interrupted |-> TRUE]

\* The exit code main() ends with after system.run: sys.exit(1) on a failed
\* result and on an exception, sys.exit(0) on KeyboardInterrupt, the end of
\* main() on success.
ExitCodeOf(outcome) ==
    IF outcome = Interrupted THEN 0
    ELSE IF outcome = RunRaised THEN 1
    ELSE IF outcome.success THEN ExitNormally
    ELSE 1

\* What run() does while every stage object holds the placeholder key: no
\* extraction can succeed.
PlaceholderRunOutcomes(cvExists, jobExists) ==
    LET validation == ValidateInputsResult(cvExists, jobExists)
    IN IF ~validation.valid
       THEN {[success |-> FALSE, errors |-> validation.errors]}
       ELSE {[success |-> FALSE, error |-> e] :
               e \in {"CV processing failed: Extracted text is too short or empty",
                      "CV processing failed: Data extraction failed: Please replace 'YOUR_GROQ_API_KEY_HERE' with your actual Groq API key in the code"}}

CliIdle ==
    /\ cliPc = "idle"
    /\ cli_args = <<>>
    /\ env_key = NoneValue
    /\ api_key = NoneValue
    /\ exit_code = NoneValue

\* temp_md before its assignment.
NoPath == <<>>

PdfIdle ==
    /\ pdfPc = "idle"
    /\ pdf_in = NoEnvelope
    /\ output_path = NoPath
    /\ temp_md = NoPath
    /\ dirs = {}
    /\ disk_files = {}
    /\ pandoc_result = NoEnvelope
    /\ pdf_result = NoEnvelope

CleanIdle ==
    /\ cleanPc = "idle"
    /\ raw_text = <<>>
    /\ cleaned = <<>>

ToolIdle == CliIdle /\ PdfIdle /\ CleanIdle

CliInit ==
    /\ cliPc = "start"
    /\ cli_args \in [cv_file : CvFiles, job_file : JobFiles, format : CliFormats,
                     output : {NoneValue, "out/custom"},
                     api_key : {NoneValue, RealKey}]
    /\ env_key \in {NoneValue, RealKey}
    /\ api_key = NoneValue
    /\ exit_code = NoneValue

\* main() up to the construction of the system: api_key is the option or the
\* environment variable; without one a warning is printed and main() goes on.
MainInit ==
    /\ cliPc = "start"
    /\ api_key' = IF cli_args.api_key # NoneValue THEN cli_args.api_key ELSE env_key
    /\ \E initOk \in BOOLEAN :
         IF initOk
         THEN cliPc' = "initialized" /\ exit_code' = exit_code
         ELSE cliPc' = "exited" /\ exit_code' = 1
    /\ UNCHANGED <<cli_args, env_key>>
    /\ UNCHANGED <<stageVars, runVars, batchVars, pdfVars, cleanVars>>

\* system.run(...) is entered with the arguments of the command line.
MainRun ==
    /\ cliPc = "initialized"
    /\ cv_file' = cli_args.cv_file
    /\ job_file' = cli_args.job_file
    /\ output_name' = cli_args.output
    /\ format_type' = cli_args.format
    /\ runPc' = "start"
    /\ cliPc' = "running"
    /\ UNCHANGED <<calls, reports, doc_result, remote, cv_data, cv_result,
                   job_result, tailored_result, result>>
    /\ UNCHANGED <<cli_args, env_key, api_key, exit_code>>
    /\ UNCHANGED <<stageVars, batchVars, pdfVars, cleanVars>>

\* run() returns, raises, or the user interrupts it; main() ends the process.
MainFinish ==
    /\ cliPc = "running"
    /\ \E cvExists \in BOOLEAN, jobExists \in BOOLEAN :
       \E outcome \in
            (IF api_key = NoneValue
             THEN PlaceholderRunOutcomes(cvExists, jobExists)
             ELSE RunOutcomes(cvExists, jobExists)) \cup {Interrupted} :
         /\ runPc' = IF outcome = Interrupted THEN "interrupted"
                     ELSE IF outcome = RunRaised THEN "raised" ELSE "returned"
         /\ result' = IF outcome \in {Interrupted, RunRaised} THEN result ELSE outcome
         /\ exit_code' = ExitCodeOf(outcome)
    /\ cliPc' = "exited"
    /\ UNCHANGED <<cv_file, job_file, output_name, format_type, calls, reports,
                   doc_result, remote, cv_data, cv_result, job_result,
                   tailored_result>>
    /\ UNCHANGED <<cli_args, env_key, api_key>>
    /\ UNCHANGED <<stageVars, batchVars, pdfVars, cleanVars>>

(***************************************************************************)
(* generate_pdf: markdown to PDF through the pandoc executable             *)
(***************************************************************************)
\* A path is the sequence of its pieces, so that str.replace can be applied
\* to it: every piece equal to .pdf is replaced.
OutputPaths ==
    {<<"out", "/", "resume", ".pdf">>,
     <<"out", ".pdf", "/", "resume", ".pdf">>,
     <<"out", "/", "resume", ".PDF">>}

\* output_path.replace('.pdf', '_temp.md'): every occurrence, case sensitive.
ReplacePdf(path) ==
    [i \in DOMAIN path |-> IF path[i] = ".pdf" THEN "_temp.md" ELSE path[i]]

\* The directory part of a path: the pieces before the separator.
DirOf(path) ==
    LET k == CHOOSE i \in DOMAIN path : path[i] = "/"
    IN SubSeq(path, 1, k - 1)

PandocOutcomes == {"absent", "timeout", "nonzero", "ok", "ok_no_output"}

PandocNotFound == "Pandoc not found. Install from: https://pandoc.org/installing.html"

PdfFailure(error) == [success |-> FALSE, error |-> error]

\* What subprocess.run returns when pandoc runs to its end: it writes the
\* output only into a directory that exists.
PandocRun(outcome, outDirExists) ==
    IF outcome = "ok" /\ outDirExists
    THEN [returncode |-> 0, stderr |-> "", wrote |-> TRUE]
    ELSE IF outcome = "ok_no_output"
    THEN [returncode |-> 0, stderr |-> "", wrote |-> FALSE]
    ELSE [returncode |-> 1, stderr |-> "pandoc: error", wrote |-> FALSE]

PdfInit ==
    /\ pdfPc = "start"
    /\ pdf_in \in [data_ok : BOOLEAN, writable : BOOLEAN, pandoc : PandocOutcomes]
    /\ output_path \in OutputPaths
    /\ temp_md = NoPath
    /\ dirs \in SUBSET {<<"out">>, <<"out", ".pdf">>}
    /\ disk_files \in {{}} \cup (IF DirOf(output_path) \in dirs
                                THEN {{output_path}} ELSE {})
    /\ pandoc_result = NoEnvelope
    /\ pdf_result = NoEnvelope

\* generate_pdf up to the end of the with block: the markdown is built and
\* written to temp_md.  open raises FileNotFoundError for a missing
\* directory and PermissionError for one that cannot be written.
WriteTempMarkdown ==
    /\ pdfPc = "start"
    /\ IF ~pdf_in.data_ok
       THEN /\ pdf_result' = PdfFailure("PDF generation failed: 'str' object has no attribute 'get'")
            /\ pdfPc' = "returned"
            /\ UNCHANGED <<temp_md, disk_files>>
       ELSE /\ temp_md' = ReplacePdf(output_path)
            /\ IF DirOf(temp_md') \notin dirs
               THEN /\ pdf_result' = PdfFailure(PandocNotFound)
                    /\ pdfPc' = "returned"
                    /\ UNCHANGED disk_files
               ELSE IF ~pdf_in.writable
               THEN /\ pdf_result' = PdfFailure("PDF generation failed: [Errno 13] Permission denied")
                    /\ pdfPc' = "returned"
                    /\ UNCHANGED disk_files
               ELSE /\ disk_files' = disk_files \cup {temp_md'}
                    /\ pdfPc' = "written"
                    /\ UNCHANGED pdf_result
    /\ UNCHANGED <<pdf_in, output_path, dirs, pandoc_result>>
    /\ UNCHANGED <<stageVars, runVars, batchVars, cliVars, cleanVars>>

\* subprocess.run(pandoc_cmd, ..., timeout=30): FileNotFoundError when the
\* executable is absent, TimeoutExpired after 30 seconds; both leave the try
\* block before the clean-up.
RunPandoc ==
    /\ pdfPc = "written"
    /\ IF pdf_in.pandoc = "absent"
       THEN /\ pdf_result' = PdfFailure(PandocNotFound)
            /\ pdfPc' = "returned"
            /\ UNCHANGED <<disk_files, pandoc_result>>
       ELSE IF pdf_in.pandoc = "timeout"
       THEN /\ pdf_result' = PdfFailure("PDF generation failed: Command pandoc timed out after 30 seconds")
            /\ pdfPc' = "returned"
            /\ UNCHANGED <<disk_files, pandoc_result>>
       ELSE /\ pandoc_result' = PandocRun(pdf_in.pandoc, DirOf(output_path) \in dirs)
            /\ disk_files' = IF pandoc_result'.wrote THEN disk_files \cup {output_path} ELSE disk_files
            /\ pdfPc' = "ran"
            /\ UNCHANGED pdf_result
    /\ UNCHANGED <<pdf_in, output_path, temp_md, dirs>>
    /\ UNCHANGED <<stageVars, runVars, batchVars, cliVars, cleanVars>>

\* The clean-up and the return after subprocess.run returned.
CleanUpAndReturn ==
    /\ pdfPc = "ran"
    /\ disk_files' = disk_files \ {temp_md}
    /\ pdf_result' =
         IF pandoc_result.returncode = 0 /\ output_path \in disk_files'
         THEN [success |-> TRUE, output_path |-> output_path, format |-> "PDF"]
         ELSE PdfFailure("Pandoc conversion failed: " \o pandoc_result.stderr)
    /\ pdfPc' = "returned"
    /\ UNCHANGED <<pdf_in, output_path, temp_md, dirs, pandoc_result>>
    /\ UNCHANGED <<stageVars, runVars, batchVars, cliVars, cleanVars>>

(***************************************************************************)
(* clean_pdf_text: the normalisation of the text read from a PDF           *)
(***************************************************************************)
UpperLetters ==
    {"A", "B", "C", "D", "E", "F", "G", "H", "I", "J", "K", "L", "M", "N",
     "O", "P", "Q", "R", "S", "T", "U", "V", "W", "X", "Y", "Z"}
LowerLetters ==
    {"a", "b", "c", "d", "e", "f", "g", "h", "i", "j", "k", "l", "m", "n",
     "o", "p", "q", "r", "s", "t", "u", "v", "w", "x", "y", "z"}
Digits == {"0", "1", "2", "3", "4", "5", "6", "7", "8", "9"}

\* \w for the characters of the model: a letter, a digit or the underscore
IsWordChar(c) == c \in UpperLetters \cup LowerLetters \cup Digits \cup {"_"}

\* The alternatives of the section pattern, in the order of the pattern.
SectionHeaders ==
    <<<<"E", "X", "P", "E", "R", "I", "E", "N", "C", "E">>,
      <<"E", "D", "U", "C", "A", "T", "I", "O", "N">>,
      <<"S", "K", "I", "L", "L", "S">>,
      <<"P", "R", "O", "J", "E", "C", "T", "S">>,
      <<"C", "E", "R", "T", "I", "F", "I", "C", "A", "T", "I", "O", "N", "S">>,
      <<"S", "U", "M", "M", "A", "R", "Y">>>>

\* re.sub(r'\s+', ' ', text): every run of whitespace becomes one blank.
RECURSIVE CollapseWhitespace(_)
CollapseWhitespace(s) ==
    IF s = <<>> THEN <<>>
    ELSE IF IsSpace(Head(s))
         THEN IF Len(s) > 1 /\ IsSpace(s[2])
              THEN CollapseWhitespace(Tail(s))
              ELSE <<" ">> \o CollapseWhitespace(Tail(s))
         ELSE <<Head(s)>> \o CollapseWhitespace(Tail(s))

\* The five two-group patterns that get a blank between their groups.
PairMatches(pattern, a, b) ==
    CASE pattern = "lower_upper" -> a \in LowerLetters /\ b \in UpperLetters
      [] pattern = "word_digit" -> IsWordChar(a) /\ b \in Digits
      [] pattern = "digit_word" -> a \in Digits /\ IsWordChar(b)
      [] pattern = "letter_at" -> a \in LowerLetters \cup UpperLetters /\ b = "@"
      [] OTHER -> a \in Digits /\ b \in {"-", "+", "(", ")"}

\* re.sub(r'(A)(B)', r'\1 \2', text): the matches are taken from the left and
\* do not overlap.
RECURSIVE SpaceBetween(_, _)
SpaceBetween(pattern, s) ==
    IF Len(s) < 2 THEN s
    ELSE IF PairMatches(pattern, s[1], s[2])
         THEN <<s[1], " ", s[2]>> \o SpaceBetween(pattern, SubSeq(s, 3, Len(s)))
         ELSE <<s[1]>> \o SpaceBetween(pattern, Tail(s))

\* The alternative of the section pattern that matches at the start of s
\* with an uppercase letter after it, or 0.
HeaderAt(s) ==
    LET hits == {k \in DOMAIN SectionHeaders :
                   /\ IsAt(s, SectionHeaders[k], 0)
                   /\ Len(s) > Len(SectionHeaders[k])
                   /\ s[Len(SectionHeaders[k]) + 1] \in UpperLetters}
    IN IF hits = {} THEN 0 ELSE CHOOSE k \in hits : \A m \in hits : k <= m

\* re.sub(f'({pattern})([A-Z])', r'\1\n\2', text): the pattern already has a
\* group of its own, so group 1 and group 2 are both the header and the
\* uppercase letter is group 3, which the replacement does not use.
RECURSIVE BreakAfterHeaders(_)
BreakAfterHeaders(s) ==
    IF s = <<>> THEN <<>>
    ELSE LET k == HeaderAt(s)
         IN IF k = 0
            THEN <<Head(s)>> \o BreakAfterHeaders(Tail(s))
            ELSE SectionHeaders[k] \o <<"\n">> \o SectionHeaders[k]
                   \o BreakAfterHeaders(SubSeq(s, Len(SectionHeaders[k]) + 2, Len(s)))

\* DocumentConverter.clean_pdf_text
CleanPdfText(text) ==
    IF text = <<>> THEN <<>>
    ELSE Strip(BreakAfterHeaders(
           SpaceBetween("digit_sign",
             SpaceBetween("letter_at",
               SpaceBetween("digit_word",
                 SpaceBetween("word_digit",
                   SpaceBetween("lower_upper", CollapseWhitespace(text))))))))

\* The pieces the texts given to clean_pdf_text are made of.
CleanPieces ==
    {SectionHeaders[3], SectionHeaders[6], <<"P">>, <<"y">>, <<" ">>, <<"1">>,
     <<"@">>, <<"-">>}

RECURSIVE CleanTextsUpTo(_)
CleanTextsUpTo(n) ==
    IF n = 0 THEN {<<>>}
    ELSE LET shorter == CleanTextsUpTo(n - 1)
         IN shorter \cup {t \o p : t \in shorter, p \in CleanPieces}

CleanInit ==
    /\ cleanPc = "start"
    /\ raw_text \in CleanTextsUpTo(MaxCleanPieces)
    /\ cleaned = <<>>

\* One call of clean_pdf_text.
CleanPdf ==
    /\ cleanPc = "start"
    /\ cleaned' = CleanPdfText(raw_text)
    /\ cleanPc' = "returned"
    /\ UNCHANGED raw_text
    /\ UNCHANGED <<stageVars, runVars, batchVars, cliVars, pdfVars>>

Next ==
    \/ ValidateInputs
    \/ ProcessCv
    \/ ProcessJobDescription
    \/ GenerateTailoredResume
    \/ CreateOutputFile

RunSpecInit == RunInit /\ StageInit /\ BatchIdle /\ ToolIdle

Spec == RunSpecInit /\ [][Next]_vars

StageNext == ExtractWithGroq \/ ParseJobDescription \/ TailorResume

StageSpecInit == StageInit /\ RunIdle /\ BatchIdle /\ ToolIdle

SpecStage == StageSpecInit /\ [][StageNext]_vars

BatchNext ==
    \/ BatchStart
    \/ BatchInvoke
    \/ BatchRecord
    \/ BatchReturn
    \/ SaveReport

BatchSpecInit == BatchInit /\ StageInit /\ RunIdle /\ ToolIdle

SpecBatch == BatchSpecInit /\ [][BatchNext]_vars

\* The loop body, the return and the report are steps of one thread: each
\* is taken once it is enabled.
SpecBatchFair == SpecBatch /\ WF_vars(BatchNext)

CliNext == MainInit \/ MainRun \/ MainFinish

CliSpecInit == CliInit /\ StageInit /\ RunIdle /\ BatchIdle /\ PdfIdle /\ CleanIdle

SpecCli == CliSpecInit /\ [][CliNext]_vars

PdfNext == WriteTempMarkdown \/ RunPandoc \/ CleanUpAndReturn

PdfSpecInit == PdfInit /\ StageInit /\ RunIdle /\ BatchIdle /\ CliIdle /\ CleanIdle

SpecPdf == PdfSpecInit /\ [][PdfNext]_vars

CleanNext == CleanPdf

CleanSpecInit == CleanInit /\ StageInit /\ RunIdle /\ BatchIdle /\ CliIdle /\ PdfIdle

SpecClean == CleanSpecInit /\ [][CleanNext]_vars

(***************************************************************************)
(* Properties of the extractors and of the remote stages (SpecStage)       *)
(***************************************************************************)
\* The stage read a reply text and ran its extractor on it.
Ran == stPc = "returned" /\ stKey = RealKey /\ stArgOk /\ stHttp = "ok200"

\* r is s without its leading and trailing blanks.
IsTrimOf(r, s) ==
    /\ r = <<>> \/ (~IsSpace(r[1]) /\ ~IsSpace(r[Len(r)]))
    /\ \E a \in 0..Len(s) :
         /\ a + Len(r) <= Len(s)
         /\ \A k \in 1..a : IsSpace(s[k])
         /\ \A k \in 1..Len(r) : s[a + k] = r[k]
         /\ \A k \in (a + Len(r) + 1)..Len(s) : IsSpace(s[k])

\* The first tagged fence of c starts at i, and j is the next fence after the tag.
JsonFenceBlock(c, i, j) ==
    /\ IsAt(c, FenceJson, i)
    /\ \A k \in 0..(i - 1) : ~IsAt(c, FenceJson, k)
    /\ j >= i + 7
    /\ IsAt(c, Fence, j)
    /\ \A k \in (i + 7)..(j - 1) : ~IsAt(c, Fence, k)

\* The first fence of c starts at i, and j is the next fence after it.
BareFenceBlock(c, i, j) ==
    /\ IsAt(c, Fence, i)
    /\ \A k \in 0..(i - 1) : ~IsAt(c, Fence, k)
    /\ j >= i + 3
    /\ IsAt(c, Fence, j)
    /\ \A k \in (i + 3)..(j - 1) : ~IsAt(c, Fence, k)

HasJsonFenceBlock(c) ==
    \E i \in 0..Len(c) :
       IsAt(c, FenceJson, i) /\ \E j \in (i + 7)..Len(c) : JsonFenceBlock(c, i, j)
HasFencedBlock(c) ==
    \E i \in 0..Len(c) :
       IsAt(c, Fence, i) /\ \E j \in (i + 3)..Len(c) : BareFenceBlock(c, i, j)
HasChar(c, ch) == \E k \in 1..Len(c) : c[k] = ch

NoJsonError ==
    CASE stStage = "extract_with_groq" -> "Could not extract valid JSON from Groq response"
      [] OTHER -> "No valid JSON found in response"

InvalidJsonError ==
    CASE stStage = "extract_with_groq" -> "Invalid JSON response from Groq: "
      [] stStage = "parse_job_description" -> "Invalid JSON in response: "
      [] OTHER -> "Invalid JSON response: "

\* C1: when the reply holds a ```json tag with a closing fence after it, each of
\* the three extractors returns the text between the first tag and the next
\* fence, without its leading and trailing blanks, whatever surrounds the block.
C1_JsonFenceReturned ==
    Ran => \A i \in 0..Len(content) :
             IsAt(content, FenceJson, i) =>
               \A j \in (i + 7)..Len(content) :
                 JsonFenceBlock(content, i, j)
                    => IsTrimOf(json_text, Slice(content, i + 7, j))

\* C1 witness: the job parser returned a trimmed tagged block that follows a
\* brace in the prose.
C1_Witness ==
    /\ Ran
    /\ stStage = "parse_job_description"
    /\ \E i, j \in 0..Len(content) :
         /\ JsonFenceBlock(content, i, j)
         /\ i > 0 /\ content[1] = "{"
         /\ json_text # Slice(content, i + 7, j)
         /\ json_text = <<"a">>

\* C2 (as claimed): with no ```json tag, when the first fenced block's trimmed
\* content starts with { and ends with }, every stage's extractor returns that
\* trimmed content, whatever braces the prose outside the fence holds.
C2_BareFenceReturned ==
    Ran /\ ~Contains(content, FenceJson)
      => \A i, j \in 0..Len(content) :
           /\ BareFenceBlock(content, i, j)
           /\ StartsWith(Strip(Slice(content, i + 3, j)), "{")
           /\ EndsWith(Strip(Slice(content, i + 3, j)), "}")
           => IsTrimOf(json_text, Slice(content, i + 3, j))

\* C3 (as claimed): a reply with neither { nor } yields no candidate, and the
\* stage reports that no JSON was found.
C3_NoBracesNothing ==
    Ran /\ ~HasChar(content, "{") /\ ~HasChar(content, "}")
      => json_text = Nothing /\ ErrorOf(envelope) = NoJsonError

\* C3 (amended): a reply with neither { nor } and without a ```json tag closed by
\* a later fence yields no candidate, and the stage reports that no JSON was found.
C3_NoBracesNoJsonFenceNothing ==
    Ran /\ ~HasChar(content, "{") /\ ~HasChar(content, "}")
        /\ ~HasJsonFenceBlock(content)
      => json_text = Nothing /\ ErrorOf(envelope) = NoJsonError

\* C3 witness: the resume extractor found nothing in a reply that holds an
\* untagged fenced block with text but no brace.
C3_Witness ==
    /\ Ran
    /\ stStage = "extract_with_groq"
    /\ ~HasChar(content, "{") /\ ~HasChar(content, "}")
    /\ \E i, j \in 0..Len(content) :
         BareFenceBlock(content, i, j) /\ Slice(content, i + 3, j) = <<"a">>
    /\ json_text = Nothing
    /\ ErrorOf(envelope) = NoJsonError

\* C4: for a reply with no fenced block, the candidate is the text from the
\* first { to the last } inclusive when the first { precedes the last }, and
\* nothing when there is no {, no }, or no } after the first {.
C4_BraceScan ==
    Ran /\ ~HasFencedBlock(content)
      => /\ \A i \in 1..Len(content) :
              (content[i] = "{" /\ \A k \in 1..(i - 1) : content[k] # "{") =>
                \A j \in (i + 1)..Len(content) :
                  (content[j] = "}" /\ \A k \in (j + 1)..Len(content) : content[k] # "}")
                    => json_text = SubSeq(content, i, j)
         /\ (~\E i \in 1..Len(content) :
                content[i] = "{" /\ \E j \in (i + 1)..Len(content) : content[j] = "}")
              => json_text = Nothing

\* C4 witness: the tailoring extractor over-captured: the candidate runs from
\* the first { over a closed object and prose to a stray last }.
C4_Witness ==
    /\ Ran
    /\ stStage = "tailor_resume"
    /\ ~HasFencedBlock(content)
    /\ json_text = <<"{", "}", "a", "}">>
    /\ Len(content) > Len(json_text)

\* C5: after a 200 reply a stage fails with its no-JSON-found error exactly
\* when the extractor returned no candidate, fails with its distinct
\* invalid-JSON error exactly when the candidate did not parse, and returns
\* success only when a candidate was found and parsed.
C5_TwoErrorKinds ==
    /\ NoJsonError # InvalidJsonError
    /\ Ran =>
         /\ json_text = Nothing <=> ErrorOf(envelope) = NoJsonError
         /\ (json_text # Nothing /\ ~JsonLoadsOk(json_text))
               <=> ErrorOf(envelope) = InvalidJsonError
         /\ (json_text # Nothing /\ JsonLoadsOk(json_text)) <=> envelope.success
    /\ (stPc = "returned" /\ envelope.success) => Ran

\* C5 witness: resume extraction found a candidate between braces that does
\* not parse and returned the invalid-JSON error.
C5_Witness ==
    /\ Ran
    /\ stStage = "extract_with_groq"
    /\ json_text = <<"{", "a", "}">>
    /\ ErrorOf(envelope) = InvalidJsonError
    /\ ~envelope.success

\* The stage call has returned, whatever its outcome.
StageReturned == stPc = "returned"

\* C18 (as claimed): every envelope a remote stage returns has, with success
\* true, a data field and no error field, and with success false an error
\* field.
C18_EnvelopeHasData ==
    StageReturned =>
      /\ envelope.success =>
           "data" \in DOMAIN envelope /\ "error" \notin DOMAIN envelope
      /\ ~envelope.success => "error" \in DOMAIN envelope

\* The error the stage returns when the request raised an exception.
StageFailureError(stage, http, detail) ==
    CASE stage = "extract_with_groq" -> GroqFailureError(http, detail)
      [] stage = "parse_job_description" -> JobFailureError(http, detail)
      [] stage = "tailor_resume" -> TailorFailureError(http, detail)

\* C20 (as claimed): a stage call sends at most one HTTP request whatever the
\* outcome, and when the request times out the stage returns a failure whose
\* error is not one it returns for another request failure.
C20_OneRequestTimeoutDistinct ==
    StageReturned =>
      /\ requests <= 1
      /\ stHttp = "timeout" =>
           /\ ~envelope.success
           /\ "error" \in DOMAIN envelope
           /\ \A detail \in ExceptionTexts :
                envelope.error # StageFailureError(stStage, "request_exception", detail)

(***************************************************************************)
(* Properties of process_cv and run (Spec)                                 *)
(***************************************************************************)
\* process_resume handed an extracted object to the mapping of process_cv.
MappingReached == Len(reports) >= 2 /\ reports[2] # "failure"

\* process_cv returned a mapped record.
Mapped == Len(reports) >= 2 /\ reports[2] = "success"

AllFieldsEmpty(d) ==
    /\ \A f \in DOMAIN d.personal_info : d.personal_info[f] = ""
    /\ d.professional_summary = ""
    /\ d.core_competencies = <<>>
    /\ d.professional_experience = <<>>
    /\ d.education = <<>>
    /\ \A f \in DOMAIN d.technical_skills : d.technical_skills[f] = <<>>
    /\ d.projects = <<>>
    /\ d.certifications = <<>>

\* C6 (as claimed): process_cv is total over missing keys: on an extracted
\* object with no recognized key it does not raise and returns a success
\* record whose list fields are empty lists and whose string fields are empty
\* strings.
C6_TotalOverMissingKeys ==
    (MappingReached /\ DOMAIN cv_data = {})
      => /\ reports[2] = "success"
         /\ cv_result.success
         /\ AllFieldsEmpty(cv_result.data)

\* C7 (as claimed): with a fully populated personal_details block, address
\* becomes location, website becomes portfolio, and every value of
\* personal_details is still a value of personal_info.
C7_PersonalDetailsKept ==
    (Mapped /\ DOMAIN cv_data["personal_details"] = DOMAIN FullPersonalDetails)
      => LET pd == cv_data["personal_details"]
             pi == cv_result.data.personal_info
         IN /\ pi.location = pd["address"]
            /\ pi.portfolio = pd["website"]
            /\ \A k \in DOMAIN pd : \E f \in DOMAIN pi : pi[f] = pd[k]

\* C8: the mapping yields one professional_experience entry per
\* work_experience entry, in the same order; duration is start_date, then
\* " - ", then end_date; achievements is the one-element list of the
\* description; position, company and location are copied.
C8_ExperienceMapped ==
    Mapped =>
      LET work == Get(cv_data, "work_experience", <<>>)
          pe == cv_result.data.professional_experience
      IN /\ Len(pe) = Len(work)
         /\ \A i \in 1..Len(work) :
              /\ pe[i].duration =
                   Get(work[i], "start_date", "") \o " - " \o Get(work[i], "end_date", "")
              /\ Len(pe[i].achievements) = 1
              /\ pe[i].achievements[1] = Get(work[i], "description", "")
              /\ pe[i].position = Get(work[i], "position", "")
              /\ pe[i].company = Get(work[i], "company", "")
              /\ pe[i].location = Get(work[i], "location", "")

\* C8 witness: two different entries were mapped, in order.
C8_Witness ==
    /\ Mapped
    /\ Len(cv_result.data.professional_experience) = 2
    /\ cv_result.data.professional_experience[1].duration = "2019 - 2021"
    /\ cv_result.data.professional_experience[1].achievements = <<"Built X">>
    /\ cv_result.data.professional_experience[2].duration = "2021 - Present"
    /\ cv_result.data.professional_experience[2].company = "Init"

\* C9: run() invokes the stages in the fixed order, each at most once; a
\* stage is invoked only if every earlier stage reported success; once a
\* stage reports failure no later stage is invoked and run() returns a
\* failure result.
C9_StageOrderFailFast ==
    /\ Len(calls) <= Len(StageOrder)
    /\ Len(reports) = Len(calls)
    /\ \A k \in 1..Len(calls) :
         /\ calls[k] = StageOrder[k]
         /\ \A m \in 1..(k - 1) : reports[m] = "success"
         /\ reports[k] = "failure"
              => /\ k = Len(calls)
                 /\ runPc = "returned"
                 /\ ~result.success

\* C9 witness: validation and process_cv succeeded, the job stage reported
\* failure, and run() returned that failure after three stage calls.
C9_Witness ==
    /\ runPc = "returned"
    /\ calls = <<"validate_inputs", "process_cv", "process_job_description">>
    /\ reports = <<"success", "success", "failure">>
    /\ ~result.success

\* C10 (as claimed): whenever run() returns a failure, at any stage including
\* input validation, the result carries an error message, the one the batch
\* runner records.
C10_FailureCarriesError ==
    (runPc = "returned" /\ ~result.success) => "error" \in DOMAIN result

\* run() returned after all five stages reported success.
AllStagesSucceeded ==
    reports = <<"success", "success", "success", "success", "success">>

\* C11 (as claimed): run() returns success exactly when the five stages all
\* reported success, and a successful result carries candidate_name,
\* job_title, company and output_file, the output name followed by a dot and
\* the format that was passed.
C11_OutputFileVerbatim ==
    runPc = "returned" =>
      /\ result.success <=> AllStagesSucceeded
      /\ result.success =>
           /\ {"output_file", "candidate_name", "job_title", "company"}
                \subseteq DOMAIN result
           /\ output_name # NoneValue
                => result.output_file = output_name \o "." \o format_type

\* C11 (amended): the same, with the extension being the format in lower case;
\* a name that was not given is built from the two file stems.
C11_RunSuccessIff ==
    runPc = "returned" =>
      /\ result.success <=> AllStagesSucceeded
      /\ result.success =>
           /\ {"output_file", "candidate_name", "job_title", "company"}
                \subseteq DOMAIN result
           /\ output_name # NoneValue
                => result.output_file = output_name \o "." \o Lower(format_type)
           /\ output_name = NoneValue
                => result.output_file =
                     cv_file.stem \o "_tailored_for_" \o job_file.stem \o "_ts."
                       \o Lower(format_type)

\* C11 witness: a run given a name and the format PDF returned success with
\* the summary fields and a file name ending in .pdf.
C11_Witness ==
    /\ runPc = "returned"
    /\ AllStagesSucceeded
    /\ result.success
    /\ format_type = "PDF"
    /\ result.output_file = "out/custom.pdf"
    /\ result.candidate_name = "Ann Lee"
    /\ result.job_title = "Engineer"
    /\ result.company = "Acme"

\* process_resume got a dict back from extract_from_file.
Converted == Len(calls) >= 2 /\ "text" \in DOMAIN doc_result

\* The document conversion failed: the dict carries an error.
ConversionFailed == Converted /\ "error" \in DOMAIN doc_result

\* C12 (as claimed): when the document conversion of the resume fails, no
\* remote extraction, job parsing, tailoring or rendering call is made, and
\* the result run() returns carries the error of the conversion stage (as it
\* is, or behind the prefixes process_resume and process_cv put before the
\* error of a stage).
C12_ConversionErrorKept ==
    ConversionFailed =>
      /\ remote = <<>>
      /\ calls = <<"validate_inputs", "process_cv">>
      /\ runPc = "returned"
      /\ ~result.success
      /\ result.error \in
           {doc_result.error,
            "Document conversion failed: " \o doc_result.error,
            "CV processing failed: " \o doc_result.error,
            "CV processing failed: Document conversion failed: " \o doc_result.error}

\* C13: when the extracted text is empty or shorter than 50 characters after
\* trimming, run() returns the too-short failure and no remote stage was
\* invoked during the run; a text of 50 or more trimmed characters is handed
\* to the remote extraction.
C13_ShortTextNoRemote ==
    Converted =>
      IF Len(Strip(doc_result.text)) < 50
      THEN /\ runPc = "returned"
           /\ ~result.success
           /\ result.error = "CV processing failed: Extracted text is too short or empty"
           /\ remote = <<>>
           /\ calls = <<"validate_inputs", "process_cv">>
      ELSE /\ Len(remote) >= 1
           /\ remote[1] = "extract_resume_data"

\* C13 witness, the short side: a text of 49 characters was refused without
\* any remote call.
C13_Witness ==
    /\ Converted
    /\ "error" \notin DOMAIN doc_result
    /\ Len(doc_result.text) = 49
    /\ runPc = "returned"
    /\ result.error = "CV processing failed: Extracted text is too short or empty"
    /\ remote = <<>>

(***************************************************************************)
(* Properties of process_batch (SpecBatch)                                 *)
(***************************************************************************)
\* The pairs of the product, resumes outermost.
Pairs ==
    [k \in 1..TotalCombinations |->
        <<cv_files[((k - 1) \div Len(job_files)) + 1],
          job_files[((k - 1) % Len(job_files)) + 1]>>]

\* The entries this call of process_batch has appended to self.results.
NewResults == SubSeq(results, Len(results_before) + 1, Len(results))

StrictlySorted(files) ==
    \A a \in 1..Len(files) : \A b \in (a + 1)..Len(files) :
        Rank(files[a]) < Rank(files[b])

BatchReturned == bPc = "done" /\ batch_result.success

\* C14: process_batch invokes run() exactly once for each pair of the
\* discovered files, the resumes in sorted order and for each resume the
\* jobs in sorted order, and the results it records are in that same order.
C14_OncePerPairInOrder ==
    bPc \in {"loop", "calling", "done"} =>
      /\ StrictlySorted(cv_files)
      /\ StrictlySorted(job_files)
      /\ {cv_files[k] : k \in 1..Len(cv_files)}
           = {f \in cvs_dir : f.suffix \in CvExtensions}
      /\ {job_files[k] : k \in 1..Len(job_files)}
           = {f \in jobs_dir : f.suffix \in JobExtensions}
      /\ Len(invoked) <= TotalCombinations
      /\ \A k \in 1..Len(invoked) : invoked[k] = Pairs[k]
      /\ BatchReturned => Len(invoked) = TotalCombinations
      /\ Len(NewResults) = Len(invoked) - (IF bPc = "calling" THEN 1 ELSE 0)
      /\ \A k \in 1..Len(NewResults) :
           /\ NewResults[k].cv_file = PathStr(invoked[k][1])
           /\ NewResults[k].job_file = PathStr(invoked[k][2])

\* C14 witness: two resumes and two jobs, four invocations in the sorted
\* order, four results in that order although the second pair failed.
C14_Witness ==
    /\ BatchReturned
    /\ Len(invoked) = 4
    /\ invoked[1] = <<[stem |-> "alice", suffix |-> ".docx"],
                      [stem |-> "job_a", suffix |-> ".txt"]>>
    /\ invoked[2] = <<[stem |-> "alice", suffix |-> ".docx"],
                      [stem |-> "job_b", suffix |-> ".md"]>>
    /\ invoked[3] = <<[stem |-> "bob", suffix |-> ".pdf"],
                      [stem |-> "job_a", suffix |-> ".txt"]>>
    /\ Len(NewResults) = 4
    /\ NewResults[2].status = "failed"
    /\ NewResults[4].cv_file = "bob.pdf"
    /\ NewResults[4].job_file = "job_b.md"

\* C15: a combination that ends failed or by an exception does not stop the
\* batch: the loop terminates, every pair of the product has been attempted
\* when process_batch returns, total_processed is the number of resumes times
\* the number of jobs, and successful + failed = total_processed.
C15_BatchCompletes ==
    /\ [](BatchReturned =>
            /\ Len(invoked) = Len(cv_files) * Len(job_files)
            /\ Len(NewResults) = Len(invoked)
            /\ batch_result.total_processed = Len(cv_files) * Len(job_files)
            /\ batch_result.successful + batch_result.failed
                 = batch_result.total_processed)
    /\ <>(bPc = "done")

\* C15 witness: the first combination raised, the second failed, and the
\* batch went on to a third, successful one and returned.
C15_Witness ==
    /\ BatchReturned
    /\ Len(NewResults) >= 3
    /\ NewResults[1].status = "exception"
    /\ NewResults[2].status = "failed"
    /\ NewResults[3].status = "success"
    /\ batch_result.successful + batch_result.failed = batch_result.total_processed

\* C16 (as claimed): the number reported as failed is the number of results
\* tagged failed, the results tagged exception being counted apart, in the
\* dict process_batch returns and in the saved report.
C16_FailedCountsFailedTag ==
    /\ BatchReturned =>
         batch_result.failed = CountStatus(NewResults, "failed")
    /\ report.written =>
         report.failed = CountStatus(results, "failed")

\* C17 (as claimed): every combination whose job file did not exist when it
\* was run is recorded with status failed and an error naming the missing
\* file, and the batch still attempts every other combination.
C17_MissingJobRecorded ==
    /\ \A k \in 1..Len(NewResults) :
         ~exists_log[k].job =>
           /\ NewResults[k].status = "failed"
           /\ NewResults[k].error \in
                {"Job description file not found: " \o PathStr(invoked[k][2]),
                 "Job processing failed: File not found: " \o PathStr(invoked[k][2])}
    /\ BatchReturned => Len(invoked) = TotalCombinations

\* C19 (as claimed): whatever the collaborators return, an extracted object
\* without the keys personal_details or skills included, no stage lets an
\* exception escape: run() always ends by returning a dict, so the batch
\* never records such an input under the tag exception.
C19_NoExceptionEscapes ==
    /\ runPc # "raised"
    /\ \A k \in 1..Len(reports) : reports[k] \in {"success", "failure"}
    /\ runPc = "returned" => "success" \in DOMAIN result

(***************************************************************************)
(* Properties of main() (SpecCli)                                          *)
(***************************************************************************)
\* C21 (as claimed): the process exits with code 0 only when run() returned
\* success; a failed result, an initialization error, an unexpected
\* exception and an interruption by the user all give a non-zero code.
C21_ZeroOnlyOnSuccess ==
    (cliPc = "exited" /\ exit_code = 0) =>
      /\ runPc = "returned"
      /\ result.success

\* C23 (as claimed): without a credential main() reports the error at
\* startup and ends before run() is entered, so that no stage runs.
C23_CredentialCheckedAtStartup ==
    api_key = NoneValue =>
      /\ cliPc \notin {"running"}
      /\ runPc = "idle"
      /\ cliPc = "exited" => exit_code # 0

(***************************************************************************)
(* Properties of generate_pdf (SpecPdf)                                    *)
(***************************************************************************)
PdfReturned == pdfPc = "returned"

\* C22 (as claimed): generate_pdf returns the Pandoc not found error exactly
\* when the pandoc executable is absent; a missing or unwritable directory,
\* malformed data, a non-zero exit and a timeout give another error.
C22_PandocNotFoundOnlyWhenAbsent ==
    (PdfReturned /\ ~pdf_result.success) =>
      /\ pdf_result.error = PandocNotFound => pdf_in.pandoc = "absent"
      /\ (pdf_in.pandoc = "absent" /\ pandoc_result = NoEnvelope
            /\ temp_md \in disk_files) =>
           pdf_result.error = PandocNotFound

\* C30 (as claimed): whenever generate_pdf returns, on success or on any
\* failure, the temporary markdown file no longer exists.
C30_TempFileRemoved ==
    (PdfReturned /\ temp_md # NoPath) => temp_md \notin disk_files

(***************************************************************************)
(* Further properties of the remote stages (SpecStage)                     *)
(***************************************************************************)
\* The start of the k-th fence of c counted from the left without overlap,
\* or -1.
FenceStart(c, k) ==
    LET f1 == Find(c, Fence, 0)
        f2 == IF f1 = -1 THEN -1 ELSE Find(c, Fence, f1 + 3)
        f3 == IF f2 = -1 THEN -1 ELSE Find(c, Fence, f2 + 3)
        f4 == IF f3 = -1 THEN -1 ELSE Find(c, Fence, f3 + 3)
    IN <<f1, f2, f3, f4>>[k]

HasTwoFencedBlocks(c) == FenceStart(c, 4) # -1

\* The text between the first fence and the second, without a json tag.
FirstBlockContent(c) ==
    LET block == Slice(c, FenceStart(c, 1) + 3, FenceStart(c, 2))
    IN IF IsAt(block, <<"j", "s", "o", "n">>, 0)
       THEN Slice(block, 4, Len(block)) ELSE block

\* C24 (as claimed): for a reply with two or more fenced blocks the resume
\* extractor looks at the first block only: its candidate is the trimmed
\* content of the first block or nothing, never text of a later block.
C24_FirstFencedBlockOnly ==
    (Ran /\ stStage = "extract_with_groq" /\ HasTwoFencedBlocks(content)) =>
       json_text \in {Nothing, Strip(FirstBlockContent(content))}


\* The candidate the patterns before the whole-text pattern give: the
\* tagged fence, for the resume extractor the untagged fence, the brace scan.
BeforeWholeText(stage, c) ==
    LET start1 == Find(c, FenceJson, 0) + 7
        end1 == Find(c, Fence, start1)
        first_code_block == Find(c, Fence, 0) + 3
        second_code_block == Find(c, Fence, first_code_block)
        potential_json == Strip(Slice(c, first_code_block, second_code_block))
        start == Find(c, OpenBrace, 0)
        end == RFind(c, CloseBrace) + 1
    IN IF Contains(c, FenceJson) /\ end1 # -1
          THEN Strip(Slice(c, start1, end1))
       ELSE IF /\ stage = "extract_with_groq"
               /\ Contains(c, Fence)
               /\ second_code_block # -1
               /\ StartsWith(potential_json, "{")
               /\ EndsWith(potential_json, "}")
          THEN potential_json
       ELSE IF start # -1 /\ end > start
          THEN Slice(c, start, end)
       ELSE Nothing

WholeTextApplies(c) ==
    StartsWith(Strip(c), "{") /\ EndsWith(Strip(c), "}")

\* The condition of the brace scan: a { exists and the last } is not before it.
BraceScanApplies(c) ==
    Find(c, OpenBrace, 0) # -1 /\ RFind(c, CloseBrace) + 1 > Find(c, OpenBrace, 0)

\* C25: the whole-text pattern (the trimmed reply starts with { and ends
\* with }) is redundant in every extractor: whenever it applies the brace
\* scan before it applies too, and the candidate is always the one the
\* patterns before the whole-text pattern give.
C25_WholeTextRedundant ==
    Ran => /\ json_text = BeforeWholeText(stStage, content)
           /\ WholeTextApplies(content) => BraceScanApplies(content)

\* C25 witness: the resume extractor was given a reply without fences that
\* is a brace pair with blanks around it, and returned the brace pair.
C25_Witness ==
    /\ Ran
    /\ stStage = "extract_with_groq"
    /\ ~Contains(content, Fence)
    /\ WholeTextApplies(content)
    /\ content # Strip(content)
    /\ json_text = Strip(content)


\* The error each stage returns for the placeholder key.
CredentialError(stage) ==
    CASE stage = "extract_with_groq" ->
           "Please replace 'YOUR_GROQ_API_KEY_HERE' with your actual Groq API key in the code"
      [] stage = "parse_job_description" ->
           "Please set your Groq API key. Replace YOUR_GROQ_API_KEY_HERE with your actual key."
      [] OTHER -> "API key not set. Use --api-key option or edit the code."

C28_ResultsOnePerCombination ==
    BatchReturned =>
      /\ Len(batch_result.results) = batch_result.total_processed
      /\ batch_result.total_processed =
           batch_result.successful + batch_result.failed
      /\ CountStatus(batch_result.results, "success") = batch_result.successful

\* C29 (as claimed): within one batch run no two combinations produce the
\* same output file path, resumes that share a stem and combinations
\* processed within the same second included.
C29_OutputPathsDistinct ==
    \A a \in 1..Len(NewResults) : \A b \in (a + 1)..Len(NewResults) :
       (NewResults[a].status = "success" /\ NewResults[b].status = "success")
         => NewResults[a].output_file # NewResults[b].output_file

(***************************************************************************)
(* Properties of clean_pdf_text (SpecClean)                                *)
(***************************************************************************)
\* The characters of s that are not whitespace, in order.
NonSpace(s) == SelectSeq(s, LAMBDA c : ~IsSpace(c))

\* Some section header of s is immediately followed by an uppercase letter.
HeaderBeforeUpper(s) ==
    \E i \in 0..Len(s) : HeaderAt(SubSeq(s, i + 1, Len(s))) # 0

\* C26 (as claimed): when a section header is immediately followed by an
\* uppercase letter, the cleaned text holds the header once, a newline and
\* that letter, and no character other than whitespace is removed or
\* duplicated.
C26_HeaderBreakKeepsText ==
    (cleanPc = "returned" /\ HeaderBeforeUpper(raw_text)) =>
       /\ NonSpace(cleaned) = NonSpace(raw_text)
       /\ \E i \in 0..Len(cleaned) : \E k \in DOMAIN SectionHeaders :
            /\ IsAt(cleaned, SectionHeaders[k] \o <<"\n">>, i)
            /\ Len(cleaned) > i + Len(SectionHeaders[k]) + 1
            /\ cleaned[i + Len(SectionHeaders[k]) + 2] \in UpperLetters

=============================================================================
